---- MODULE Spec2Model ----
(***************************************************************************)
(* Gate-entry validation service (src/server.js).  The file holds two      *)
(* deployed variants of the same service: variant 1 (lines 1-270, with     *)
(* the manual-confirm flow) and variant 2 (lines 272-504, with the         *)
(* vehicle check and the direction/prefix container policy).               *)
(*                                                                         *)
(* JavaScript runs the handler single-threaded: the code between two       *)
(* awaits is one atomic step.  The handler therefore has three steps:      *)
(* Receive (up to the first await), SoapReply (from the authority's        *)
(* answer to the next await or the response) and ForwardReply (from the    *)
(* sink's answer to the response).  writeLog and readLog use the           *)
(* synchronous fs calls only, so one call is part of one step.             *)
(*                                                                         *)
(* Spec runs MaxTxns concurrent transactions; SpecSingle runs one, over    *)
(* every shape of request and answer; SpecFair is Spec with the answers    *)
(* that are bound to arrive; SpecLog applies the log helpers and the fetch *)
(* routes to a log directory in any condition.                             *)
(***************************************************************************)
EXTENDS Integers, Sequences, FiniteSets, TLC

(***************************************************************************)
(* JavaScript values.  A string is its sequence of characters.             *)
(***************************************************************************)
Undef == [t |-> "undefined", s |-> <<>>]
Null == [t |-> "null", s |-> <<>>]
True == [t |-> "boolean", s |-> <<"t", "r", "u", "e">>]
Num7 == [t |-> "number", s |-> <<"7">>]
Str(s) == [t |-> "string", s |-> s]
StrFalse == Str(<<"f", "a", "l", "s", "e">>)
StrTrue == Str(<<"t", "r", "u", "e">>)

\* ToBoolean: undefined, null and the empty string are falsy.
Truthy(v) ==
  CASE v.t = "undefined" -> FALSE
    [] v.t = "null" -> FALSE
    [] v.t = "string" -> v.s # <<>>
    [] OTHER -> TRUE

\* a[key] of an object: a key the object lacks reads as undefined.
Get(obj, key) == IF key \in DOMAIN obj THEN obj[key] ELSE Undef

Min(a, b) == IF a < b THEN a ELSE b

\* String.prototype.substring(0, n)
Substring0(s, n) == SubSeq(s, 1, Min(n, Len(s)))

LowerChars ==
  <<"a", "b", "c", "d", "e", "f", "g", "h", "i", "j", "k", "l", "m",
    "n", "o", "p", "q", "r", "s", "t", "u", "v", "w", "x", "y", "z">>
UpperChars ==
  <<"A", "B", "C", "D", "E", "F", "G", "H", "I", "J", "K", "L", "M",
    "N", "O", "P", "Q", "R", "S", "T", "U", "V", "W", "X", "Y", "Z">>

UpperChar(c) ==
  IF \E i \in 1..Len(LowerChars) : LowerChars[i] = c
  THEN UpperChars[CHOOSE i \in 1..Len(LowerChars) : LowerChars[i] = c]
  ELSE c

\* String.prototype.toUpperCase()
ToUpperCase(s) == [i \in 1..Len(s) |-> UpperChar(s[i])]

(***************************************************************************)
(* Dates.  new Date(string) of a four-digit year is that year's first      *)
(* instant; a string that is no date gives an Invalid Date (NaN), and      *)
(* every comparison with NaN is false.                                     *)
(***************************************************************************)
Digits == <<"0", "1", "2", "3", "4", "5", "6", "7", "8", "9">>
IsDigit(c) == \E i \in 1..Len(Digits) : Digits[i] = c
DigitVal(c) == (CHOOSE i \in 1..Len(Digits) : Digits[i] = c) - 1

RECURSIVE DecimalValue(_)
DecimalValue(s) ==
  IF s = <<>> THEN 0
  ELSE 10 * DecimalValue(SubSeq(s, 1, Len(s) - 1)) + DigitVal(s[Len(s)])

NaN == [valid |-> FALSE, time |-> 0]

\* new Date(v) for the values the authority record can hold
NewDate(v) ==
  IF v.t = "string" /\ Len(v.s) = 4
     /\ \A i \in 1..Len(v.s) : IsDigit(v.s[i])
  THEN [valid |-> TRUE, time |-> DecimalValue(v.s)]
  ELSE NaN

\* new Date(): the decision time
Now == NewDate(Str(<<"2", "0", "2", "6">>))

\* a < b on two Dates
DateLess(a, b) == a.valid /\ b.valid /\ a.time < b.time

IsPermitExpiredNoAbsenceTest(validTill) == DateLess(NewDate(validTill), Now)

\* an indicator that resolves to no timestamp counted as expired:
\* !(date >= now)
IsPermitExpiredUnparsable(validTill) ==
  IF ~Truthy(validTill) THEN TRUE
  ELSE ~(NewDate(validTill).valid /\ NewDate(validTill).time >= Now.time)

\* isPermitExpired (both variants)
isPermitExpired(validTill) ==
  IF ~Truthy(validTill) THEN TRUE
  ELSE DateLess(NewDate(validTill), Now)

(***************************************************************************)
(* Log files (LOG_DIR).  A file is absent, holds the empty text, holds     *)
(* text that is no JSON (a truncated write), holds JSON that is no array,  *)
(* or holds the JSON array of its entries.                                 *)
(***************************************************************************)
IncomingLog == "incoming.log.json"
MatchedLog == "matched.log.json"
MismatchLog == "mismatch.log.json"
InvalidLog == "invalid.log.json"
ErrorLog == "error.log.json"
SentLog == "sent-to-api.log.json"
SentErrorLog == "sent-to-api-error.log.json"

LogFiles ==
  {IncomingLog, MatchedLog, MismatchLog, InvalidLog, ErrorLog, SentLog,
   SentErrorLog}

AbsentFile == [state |-> "absent", arr |-> <<>>]
EmptyFile == [state |-> "empty", arr |-> <<>>]
CorruptFile == [state |-> "corrupt", arr |-> <<>>]
NotArrayFile == [state |-> "notarray", arr |-> <<>>]
ArrayFile(arr) == [state |-> "array", arr |-> arr]

\* the try block of writeLog: what arr holds before the push
LoadedArray(f) == IF f.state = "array" THEN f.arr ELSE <<>>

\* { timestamp: new Date().toISOString(), ...data }: data's own keys win
LogEntry(data) ==
  [k \in DOMAIN data \cup {"timestamp"} |->
     IF k \in DOMAIN data THEN data[k] ELSE Now]

\* arr.push of a parsed value that is no array throws a TypeError
writeLogThrows(fs, file) == fs[file].state = "notarray"

\* the file rewritten with the new entry alone
writeLogOverwrite(fs, file, data) ==
  IF writeLogThrows(fs, file) THEN fs
  ELSE [fs EXCEPT ![file] = ArrayFile(<<LogEntry(data)>>)]

\* unshift instead of push: the newest entry first
writeLogPrepend(fs, file, data) ==
  IF writeLogThrows(fs, file) THEN fs
  ELSE [fs EXCEPT
          ![file] = ArrayFile(<<LogEntry(data)>> \o LoadedArray(fs[file]))]

\* the file after the call: a throwing push leaves it as it was
writeLog(fs, file, data) ==
  IF writeLogThrows(fs, file) THEN fs
  ELSE [fs EXCEPT
          ![file] = ArrayFile(Append(LoadedArray(fs[file]), LogEntry(data)))]

\* what JSON.parse gives for a file holding valid JSON that is no array
ParsedNonArray == [t |-> "object", s |-> <<>>]

\* a JavaScript array
Array(arr) == [t |-> "array", s |-> arr]

\* readLog: the parsed value, or [] for an absent, empty or unparsable file
readLog(fs, file) ==
  IF fs[file].state = "notarray" THEN ParsedNonArray
  ELSE Array(LoadedArray(fs[file]))

(***************************************************************************)
(* Side effects of the handler, in the order the code performs them.       *)
(***************************************************************************)
LogEff(file, data) ==
  [op |-> "writeLog", name |-> file, status |-> 0, data |-> data]
EmitEff(event, data) ==
  [op |-> "emit", name |-> event, status |-> 0, data |-> data]
ResEff(status, body) ==
  [op |-> "respond", name |-> "res", status |-> status, data |-> body]
SoapEff(permitNumber) ==
  [op |-> "callSoapApi", name |-> "SOAP_URL", status |-> 0,
   data |-> [permitNumber |-> permitNumber]]
PostEff(payload) ==
  [op |-> "axios.post", name |-> "DUMMY_TARGET_API", status |-> 0,
   data |-> payload]

\* the data handed to writeLog, per file, in call order
RECURSIVE AppendedBy(_, _)
AppendedBy(lg, effs) ==
  IF effs = <<>> THEN lg
  ELSE LET e == Head(effs)
       IN AppendedBy(IF e.op = "writeLog"
                     THEN [lg EXCEPT ![e.name] = Append(@, e.data)]
                     ELSE lg,
                     Tail(effs))

RECURSIVE ApplyEffects(_, _)
ApplyEffects(fs, effs) ==
  IF effs = <<>> THEN fs
  ELSE LET e == Head(effs)
       IN ApplyEffects(IF e.op = "writeLog" THEN writeLog(fs, e.name, e.data)
                       ELSE fs,
                       Tail(effs))

(***************************************************************************)
(* The authority's answer and parseSoapResponse.                           *)
(***************************************************************************)
NoRecord == [none |-> TRUE]

Threw(msg) == [threw |-> TRUE, error |-> msg, value |-> NoRecord]
Returned(val) == [threw |-> FALSE, error |-> "", value |-> val]

\* variant 1's record with the validity indicator carried over as well
parseSoapResponseV1WithValidity(xml) ==
  IF xml.kind # "record"
  THEN Threw("Cannot read properties of undefined")
  ELSE Returned([permitNumber |-> Get(xml.d, "tns:PermitNumber"),
                 containerNumber |-> Get(xml.d, "tns:ContainerNumber"),
                 containerSize |-> Get(xml.d, "tns:ContainerSize"),
                 containerType |-> Get(xml.d, "tns:ContainerType"),
                 containerStatus |-> Get(xml.d, "tns:ContainerStatus"),
                 vehicleNumber |-> Get(xml.d, "tns:VechileNumber"),
                 slineCode |-> Get(xml.d, "tns:SlineCode"),
                 lddMtFlag |-> Get(xml.d, "tns:LDD_MT_Flg"),
                 isPermitValidTill |-> Get(xml.d, "tns:IsPermitValid")])

\* variant 1, lines 115-140: the record has no isPermitValidTill
parseSoapResponseV1(xml) ==
  IF xml.kind # "record"
  THEN Threw("Cannot read properties of undefined")
  ELSE Returned([permitNumber |-> Get(xml.d, "tns:PermitNumber"),
                 containerNumber |-> Get(xml.d, "tns:ContainerNumber"),
                 containerSize |-> Get(xml.d, "tns:ContainerSize"),
                 containerType |-> Get(xml.d, "tns:ContainerType"),
                 containerStatus |-> Get(xml.d, "tns:ContainerStatus"),
                 vehicleNumber |-> Get(xml.d, "tns:VechileNumber"),
                 slineCode |-> Get(xml.d, "tns:SlineCode"),
                 lddMtFlag |-> Get(xml.d, "tns:LDD_MT_Flg")])

\* variant 2, lines 371-385
parseSoapResponseV2(xml) ==
  IF xml.kind # "record"
  THEN Threw("Cannot read properties of undefined")
  ELSE Returned([permitNumber |-> Get(xml.d, "tns:PermitNumber"),
                 containerNumber |-> Get(xml.d, "tns:ContainerNumber"),
                 vehicleNumber |-> Get(xml.d, "tns:VechileNumber"),
                 isPermitValidTill |-> Get(xml.d, "tns:IsPermitValid")])

\* a lenient parse: a missing PermitDTLS block reads as an empty one
parseSoapResponseLenient(v, xml) ==
  IF v = 1 THEN parseSoapResponseV1([kind |-> "record", d |-> xml.d])
  ELSE parseSoapResponseV2([kind |-> "record", d |-> xml.d])

parseSoapResponse(v, xml) ==
  IF v = 1 THEN parseSoapResponseV1(xml) ELSE parseSoapResponseV2(xml)

\* callSoapApi once axios.post has settled: a rejected post throws before
\* the parse
callSoapApiResult(v, answer) ==
  IF answer.kind = "transportError" THEN Threw("Network Error")
  ELSE parseSoapResponse(v, answer)

(***************************************************************************)
(* Field reconciliation.                                                   *)
(***************************************************************************)
\* x || ""
OrEmpty(x) == IF Truthy(x) THEN x ELSE Str(<<>>)

\* variant 1, lines 193-199
PermitCheckV1(client, soapData) ==
  IF client.permitNumber # soapData.permitNumber
  THEN <<[field |-> "permitNumber", client |-> client.permitNumber,
          soap |-> soapData.permitNumber]>>
  ELSE <<>>

\* variant 1, lines 201-210
ContainerCheckV1(client, soapData) ==
  IF Truthy(client.containerNumber)
     /\ client.containerNumber # soapData.containerNumber
  THEN <<[field |-> "containerNumber", client |-> client.containerNumber,
          soap |-> soapData.containerNumber]>>
  ELSE <<>>

\* variant 2, lines 419-421
requireContainer(gateType, prefix) ==
  \/ gateType = <<"G", "A", "T", "E", "_", "I", "N">> /\ prefix = <<"P", "M", "A">>
  \/ /\ gateType = <<"G", "A", "T", "E", "_", "O", "U", "T">>
     /\ prefix \in {<<"P", "M", "D">>, <<"G", "P", "C">>}

VehicleCheckOptional(client, soapData) ==
  IF Truthy(client.vehicleNumber)
     /\ Truthy(soapData.vehicleNumber)
     /\ client.vehicleNumber # soapData.vehicleNumber
  THEN <<[field |-> "vehicleNumber", client |-> client.vehicleNumber,
          soap |-> soapData.vehicleNumber]>>
  ELSE <<>>

\* variant 2, lines 424-438
VehicleCheck(client, soapData) ==
  IF ~Truthy(client.vehicleNumber)
  THEN <<[field |-> "vehicleNumber",
          reason |-> "Vehicle number missing from validate payload"]>>
  ELSE IF Truthy(soapData.vehicleNumber)
          /\ client.vehicleNumber # soapData.vehicleNumber
       THEN <<[field |-> "vehicleNumber", client |-> client.vehicleNumber,
               soap |-> soapData.vehicleNumber]>>
       ELSE <<>>

ContainerCheckUnconditional(client, soapData, required) ==
  IF Truthy(client.containerNumber)
     /\ Truthy(soapData.containerNumber)
     /\ client.containerNumber # soapData.containerNumber
  THEN <<[field |-> "containerNumber", client |-> client.containerNumber,
          soap |-> soapData.containerNumber]>>
  ELSE <<>>

\* variant 2, lines 441-453
ContainerCheck(client, soapData, required) ==
  IF required
     /\ Truthy(client.containerNumber)
     /\ Truthy(soapData.containerNumber)
     /\ client.containerNumber # soapData.containerNumber
  THEN <<[field |-> "containerNumber", client |-> client.containerNumber,
          soap |-> soapData.containerNumber]>>
  ELSE <<>>

\* variant 1, lines 191-210: the mismatch list
MismatchesV1(client, soapData) ==
  Returned(PermitCheckV1(client, soapData) \o ContainerCheckV1(client, soapData))

\* variant 2, lines 414-453: the mismatch list; substring and toUpperCase
\* of a truthy value that is no string throw a TypeError
MismatchesV2(client, soapData) ==
  LET permit == OrEmpty(client.permitNumber)
      gate == OrEmpty(client.gateType)
  IN IF permit.t # "string" THEN Threw("permit.substring is not a function")
     ELSE IF gate.t # "string" THEN Threw("toUpperCase is not a function")
     ELSE LET prefix == Substring0(permit.s, 3)
              gateType == ToUpperCase(gate.s)
          IN Returned(VehicleCheck(client, soapData)
                      \o ContainerCheck(client, soapData,
                                        requireContainer(gateType, prefix)))

Mismatches(v, client, soapData) ==
  IF v = 1 THEN MismatchesV1(client, soapData)
  ELSE MismatchesV2(client, soapData)

IsMatchedAtMostOne(mismatches) == Len(mismatches) <= 1

\* mismatches.length === 0
IsMatched(mismatches) == Len(mismatches) = 0

(***************************************************************************)
(* The handler of POST /api/gate/validate, one operator per stretch of     *)
(* code between two awaits.                                                *)
(***************************************************************************)
NotEvaluated == [evaluated |-> FALSE, list |-> <<>>]
Evaluated(list) == [evaluated |-> TRUE, list |-> list]
NoPayload == [none |-> TRUE]

\* sendToTargetAPI up to its await
sendToTargetAPIStart(payload) == <<LogEff(SentLog, payload), PostEff(payload)>>

\* sendToTargetAPI after its await: the catch swallows the failure
sendToTargetAPIEnd(outcome, payload) ==
  IF outcome = "delivered" THEN <<>>
  ELSE <<LogEff(SentErrorLog, [error |-> outcome, payload |-> payload])>>

\* a catch that logs the error and sends no response
CatchEffectsSilent(msg) == <<LogEff(ErrorLog, [error |-> msg])>>

\* the catch of the handler
CatchEffects(msg) ==
  <<LogEff(ErrorLog, [error |-> msg]), ResEff(500, [error |-> msg])>>

ManualConfirmString(v, client) == v = 1 /\ client.confirmedByUser = StrTrue

\* client.confirmedByUser === true, which only variant 1 tests
ManualConfirm(v, client) == v = 1 /\ client.confirmedByUser = True

IncomingEff(v, client) ==
  IF v = 1 THEN LogEff(IncomingLog, [body |-> client])
  ELSE LogEff(IncomingLog, client)

ManualPayload(client) ==
  [source |-> "manual", client |-> client, soapData |-> Null,
   timestamp |-> Now]

\* the incoming entry written last instead of first
HandlerStartLogsLate(v, client) ==
  IF ManualConfirm(v, client)
  THEN [effects |-> <<LogEff(MatchedLog, ManualPayload(client))>>
                    \o sendToTargetAPIStart(ManualPayload(client))
                    \o <<IncomingEff(v, client)>>,
        pc |-> "awaitForwardManual",
        payload |-> ManualPayload(client)]
  ELSE [effects |-> <<SoapEff(client.permitNumber), IncomingEff(v, client)>>,
        pc |-> "awaitSoap",
        payload |-> NoPayload]

\* from the request to the first await
HandlerStart(v, client) ==
  IF ManualConfirm(v, client)
  THEN [effects |-> <<IncomingEff(v, client),
                      LogEff(MatchedLog, ManualPayload(client))>>
                    \o sendToTargetAPIStart(ManualPayload(client)),
        pc |-> "awaitForwardManual",
        payload |-> ManualPayload(client)]
  ELSE [effects |-> <<IncomingEff(v, client), SoapEff(client.permitNumber)>>,
        pc |-> "awaitSoap",
        payload |-> NoPayload]

ExpiredPayload(v, client, soapData) ==
  IF v = 1
  THEN [client |-> client, soapData |-> soapData, reason |-> "PERMIT_EXPIRED",
        timestamp |-> Now]
  ELSE [client |-> client, soapData |-> soapData, reason |-> "PERMIT_EXPIRED"]

ExpiredType(v) == IF v = 1 THEN "INVALID_PERMIT" ELSE "PERMIT_EXPIRED"

\* the expiry published under the mismatch event's name
ExpiredEffectsWrongEvent(v, client, soapData) ==
  <<LogEff(InvalidLog, ExpiredPayload(v, client, soapData)),
    EmitEff("gate:mismatch", ExpiredPayload(v, client, soapData)),
    ResEff(422, [success |-> FALSE, type |-> ExpiredType(v),
                 message |-> "Permit is expired", soapData |-> soapData])>>

ExpiredEffects(v, client, soapData) ==
  <<LogEff(InvalidLog, ExpiredPayload(v, client, soapData)),
    EmitEff("gate:invalid", ExpiredPayload(v, client, soapData)),
    ResEff(422, [success |-> FALSE, type |-> ExpiredType(v),
                 message |-> "Permit is expired", soapData |-> soapData])>>

MatchedPayload(v, client, soapData) ==
  IF v = 1
  THEN [source |-> "soap", client |-> client, soapData |-> soapData,
        timestamp |-> Now]
  ELSE [source |-> "soap", client |-> client, soapData |-> soapData]

\* a mismatch that is handed to the sink as well
MismatchEffectsForwards(client, soapData, mismatches) ==
  <<LogEff(MismatchLog, [client |-> client, soapData |-> soapData,
                         mismatches |-> mismatches])>>
  \o sendToTargetAPIStart([client |-> client, soapData |-> soapData,
                           mismatches |-> mismatches])
  \o <<EmitEff("gate:mismatch", [client |-> client, soapData |-> soapData,
                                 mismatches |-> mismatches]),
       ResEff(409, [success |-> FALSE, mismatches |-> mismatches,
                    soapData |-> soapData])>>

MismatchEffects(client, soapData, mismatches) ==
  <<LogEff(MismatchLog, [client |-> client, soapData |-> soapData,
                         mismatches |-> mismatches]),
    EmitEff("gate:mismatch", [client |-> client, soapData |-> soapData,
                              mismatches |-> mismatches]),
    ResEff(409, [success |-> FALSE, mismatches |-> mismatches,
                 soapData |-> soapData])>>

\* the matched event published before the payload is handed to the sink
DecideEventFirst(v, client, soapData, mismatches) ==
  IF IsMatched(mismatches)
  THEN [effects |-> <<LogEff(MatchedLog, MatchedPayload(v, client, soapData)),
                      EmitEff("gate:matched",
                              MatchedPayload(v, client, soapData))>>
                    \o sendToTargetAPIStart(MatchedPayload(v, client, soapData)),
        pc |-> "awaitForward",
        soapData |-> soapData,
        mismatches |-> Evaluated(mismatches),
        payload |-> MatchedPayload(v, client, soapData)]
  ELSE [effects |-> MismatchEffects(client, soapData, mismatches),
        pc |-> "done",
        soapData |-> soapData,
        mismatches |-> Evaluated(mismatches),
        payload |-> NoPayload]

\* the final decision, once the mismatch list is built
Decide(v, client, soapData, mismatches) ==
  IF IsMatched(mismatches)
  THEN [effects |-> <<LogEff(MatchedLog, MatchedPayload(v, client, soapData))>>
                    \o sendToTargetAPIStart(MatchedPayload(v, client, soapData)),
        pc |-> "awaitForward",
        soapData |-> soapData,
        mismatches |-> Evaluated(mismatches),
        payload |-> MatchedPayload(v, client, soapData)]
  ELSE [effects |-> MismatchEffects(client, soapData, mismatches),
        pc |-> "done",
        soapData |-> soapData,
        mismatches |-> Evaluated(mismatches),
        payload |-> NoPayload]

Failed(msg, soapData) ==
  [effects |-> CatchEffects(msg), pc |-> "done", soapData |-> soapData,
   mismatches |-> NotEvaluated, payload |-> NoPayload]

\* from the authority's answer to the next await or the response
HandlerAfterSoap(v, client, answer) ==
  LET looked == callSoapApiResult(v, answer)
  IN IF looked.threw THEN Failed(looked.error, NoRecord)
     ELSE IF isPermitExpired(Get(looked.value, "isPermitValidTill"))
     THEN [effects |-> ExpiredEffects(v, client, looked.value),
           pc |-> "done",
           soapData |-> looked.value,
           mismatches |-> NotEvaluated,
           payload |-> NoPayload]
     ELSE LET m == Mismatches(v, client, looked.value)
          IN IF m.threw THEN Failed(m.error, looked.value)
             ELSE Decide(v, client, looked.value, m.value)

MatchedResponse(manual, soapData) ==
  IF manual
  THEN ResEff(200, [success |-> TRUE, message |-> "Manually confirmed & sent"])
  ELSE ResEff(200, [success |-> TRUE, soapData |-> soapData])

\* sendToTargetAPI rethrowing the failure after logging it
HandlerAfterForwardPropagates(manual, outcome, payload, soapData) ==
  IF outcome = "delivered"
  THEN <<EmitEff("gate:matched", payload), MatchedResponse(manual, soapData)>>
  ELSE sendToTargetAPIEnd(outcome, payload) \o CatchEffects(outcome)

\* from the sink's answer to the response
HandlerAfterForward(manual, outcome, payload, soapData) ==
  sendToTargetAPIEnd(outcome, payload)
  \o <<EmitEff("gate:matched", payload), MatchedResponse(manual, soapData)>>

(***************************************************************************)
(* State.                                                                  *)
(***************************************************************************)
MaxTxns == 2
Txns == 1..MaxTxns

VARIABLES
  variant,     \* which of the two deployed variants runs
  files,       \* LOG_DIR: file name -> content
  pc,          \* per transaction: idle, awaitSoap, awaitForward(Manual), done
  client,      \* per transaction: req.body
  reply,       \* per transaction: what the authority answered
  soapData,    \* per transaction: the handler's soapData
  mismatches,  \* per transaction: the handler's mismatches
  payload,     \* per transaction: the payload handed to sendToTargetAPI
  effects,     \* per transaction: the side effects performed, in order
  delivery,    \* per transaction: how the post to the sink settled
  started,     \* LOG_DIR as the service found it at startup
  logged,      \* per log file: the data of the completed writeLog calls
  logCall      \* the last direct use of the log helpers and its result

vars ==
  <<variant, files, pc, client, reply, soapData, mismatches, payload, effects,
    delivery, started, logged, logCall>>

(***************************************************************************)
(* Inputs.                                                                 *)
(***************************************************************************)
PMA1 == Str(<<"P", "M", "A", "1">>)
PMD1 == Str(<<"P", "M", "D", "1">>)
GPC1 == Str(<<"G", "P", "C", "1">>)
XY == Str(<<"X", "Y">>)
GATE_IN == Str(<<"G", "A", "T", "E", "_", "I", "N">>)
GATE_OUT == Str(<<"G", "A", "T", "E", "_", "O", "U", "T">>)
gate_out == Str(<<"g", "a", "t", "e", "_", "o", "u", "t">>)
V1 == Str(<<"V", "1">>)
V2 == Str(<<"V", "2">>)
C1 == Str(<<"C", "1">>)
C2 == Str(<<"C", "2">>)
Y2025 == Str(<<"2", "0", "2", "5">>)
Y2026 == Str(<<"2", "0", "2", "6">>)
Y2027 == Str(<<"2", "0", "2", "7">>)
NoClient == [none |-> TRUE]
NoReply == [kind |-> "none"]

WideRequests ==
  [permitNumber : {Undef, PMA1, PMD1, GPC1, XY, Num7},
   gateType : {Undef, GATE_IN, GATE_OUT, gate_out, Num7},
   vehicleNumber : {Undef, Str(<<>>), V1},
   containerNumber : {Undef, C1},
   confirmedByUser : {Undef, True, StrTrue}]

PermitDTLS ==
  [tns_PermitNumber : {PMA1, XY},
   tns_ContainerNumber : {Undef, C1, C2},
   tns_VechileNumber : {Undef, V1, V2},
   tns_IsPermitValid : {Undef, Str(<<>>), Y2025, Y2026, Y2027, StrTrue,
                        StrFalse}]

\* the tns: elements of one PermitDTLS block, keyed as xml2js keys them
Dtls(r) ==
  [k \in {"tns:PermitNumber", "tns:ContainerNumber", "tns:VechileNumber",
          "tns:IsPermitValid"} |->
     CASE k = "tns:PermitNumber" -> r.tns_PermitNumber
       [] k = "tns:ContainerNumber" -> r.tns_ContainerNumber
       [] k = "tns:VechileNumber" -> r.tns_VechileNumber
       [] OTHER -> r.tns_IsPermitValid]

NoDtls == [k \in {} |-> Undef]

TransportError == [kind |-> "transportError", d |-> NoDtls]
NoPermitDTLS == [kind |-> "noPermitDTLS", d |-> NoDtls]
Record(r) == [kind |-> "record", d |-> Dtls(r)]

WideReplies ==
  {TransportError, NoPermitDTLS} \cup {Record(r) : r \in PermitDTLS}

NarrowRequests ==
  [permitNumber : {PMD1},
   gateType : {gate_out},
   vehicleNumber : {Undef, V1},
   containerNumber : {C1},
   confirmedByUser : {Undef, True}]

NarrowReplies ==
  {TransportError, NoPermitDTLS}
  \cup {Record(r) : r \in [tns_PermitNumber : {PMD1},
                           tns_ContainerNumber : {C1},
                           tns_VechileNumber : {V1},
                           tns_IsPermitValid : {Y2025, Y2027}]}

ForwardOutcomes == {"delivered", "timeout of 5000ms exceeded"}

\* every way axios.post to the sink settles: a 2xx answer, or a rejection
WideForwardOutcomes ==
  ForwardOutcomes
  \cup {"connect ECONNREFUSED", "Request failed with status code 500"}

NotForwarded == "none"
NoCall == [op |-> "none"]

OldEntry == [timestamp |-> NewDate(Y2025), note |-> Str(<<"o", "l", "d">>)]

\* what an earlier run of the service can have left in LOG_DIR
InitFileStates == {AbsentFile, CorruptFile, ArrayFile(<<OldEntry>>)}

\* no request received, no log helper called yet
Idle ==
  /\ variant \in {1, 2}
  /\ pc = [t \in Txns |-> "idle"]
  /\ client = [t \in Txns |-> NoClient]
  /\ reply = [t \in Txns |-> NoReply]
  /\ soapData = [t \in Txns |-> NoRecord]
  /\ mismatches = [t \in Txns |-> NotEvaluated]
  /\ payload = [t \in Txns |-> NoPayload]
  /\ effects = [t \in Txns |-> <<>>]
  /\ delivery = [t \in Txns |-> NotForwarded]
  /\ started = files
  /\ logged = [n \in LogFiles |-> <<>>]
  /\ logCall = NoCall

Init ==
  /\ \E f \in InitFileStates : files = [n \in LogFiles |-> f]
  /\ Idle

(***************************************************************************)
(* Actions.                                                                *)
(***************************************************************************)
\* a request arrives: the handler runs to its first await
Receive(t, requests) ==
  /\ pc[t] = "idle"
  /\ \E c \in requests :
       \E h \in {HandlerStart(variant, c)} :
          /\ client' = [client EXCEPT ![t] = c]
          /\ pc' = [pc EXCEPT ![t] = h.pc]
          /\ payload' = [payload EXCEPT ![t] = h.payload]
          /\ effects' = [effects EXCEPT ![t] = @ \o h.effects]
          /\ files' = ApplyEffects(files, h.effects)
          /\ logged' = AppendedBy(logged, h.effects)
  /\ UNCHANGED <<variant, reply, soapData, mismatches, delivery, started,
                 logCall>>

\* a handler that consults the matched history: a request that history
\* already holds is turned away as a duplicate
SoapReplyDedup(t, replies) ==
  /\ pc[t] = "awaitSoap"
  /\ \E r \in replies :
       \E h \in {IF \E i \in 1..Len(readLog(files, MatchedLog).s) :
                      Get(readLog(files, MatchedLog).s[i], "client") = client[t]
                 THEN Failed("duplicate", NoRecord)
                 ELSE HandlerAfterSoap(variant, client[t], r)} :
          /\ reply' = [reply EXCEPT ![t] = r]
          /\ pc' = [pc EXCEPT ![t] = h.pc]
          /\ soapData' = [soapData EXCEPT ![t] = h.soapData]
          /\ mismatches' = [mismatches EXCEPT ![t] = h.mismatches]
          /\ payload' = [payload EXCEPT ![t] = h.payload]
          /\ effects' = [effects EXCEPT ![t] = @ \o h.effects]
          /\ files' = ApplyEffects(files, h.effects)
          /\ logged' = AppendedBy(logged, h.effects)
  /\ UNCHANGED <<variant, client, delivery, started, logCall>>

\* the authority's answer arrives (or the post fails)
SoapReply(t, replies) ==
  /\ pc[t] = "awaitSoap"
  /\ \E r \in replies :
       \E h \in {HandlerAfterSoap(variant, client[t], r)} :
          /\ reply' = [reply EXCEPT ![t] = r]
          /\ pc' = [pc EXCEPT ![t] = h.pc]
          /\ soapData' = [soapData EXCEPT ![t] = h.soapData]
          /\ mismatches' = [mismatches EXCEPT ![t] = h.mismatches]
          /\ payload' = [payload EXCEPT ![t] = h.payload]
          /\ effects' = [effects EXCEPT ![t] = @ \o h.effects]
          /\ files' = ApplyEffects(files, h.effects)
          /\ logged' = AppendedBy(logged, h.effects)
  /\ UNCHANGED <<variant, client, delivery, started, logCall>>

\* the sink's answer arrives, or the post times out or fails
ForwardReply(t, outcomes) ==
  /\ pc[t] \in {"awaitForward", "awaitForwardManual"}
  /\ \E outcome \in outcomes :
       \E effs \in {HandlerAfterForward(pc[t] = "awaitForwardManual", outcome,
                                        payload[t], soapData[t])} :
          /\ delivery' = [delivery EXCEPT ![t] = outcome]
          /\ effects' = [effects EXCEPT ![t] = @ \o effs]
          /\ files' = ApplyEffects(files, effs)
          /\ logged' = AppendedBy(logged, effs)
  /\ pc' = [pc EXCEPT ![t] = "done"]
  /\ UNCHANGED <<variant, client, reply, soapData, mismatches, payload,
                 started, logCall>>

\* concurrent transactions
Next ==
  \E t \in Txns :
    \/ Receive(t, NarrowRequests)
    \/ SoapReply(t, NarrowReplies)
    \/ ForwardReply(t, ForwardOutcomes)

Spec == Init /\ [][Next]_vars

\* one transaction, every shape of request and of answer
NextSingle ==
  \/ Receive(1, WideRequests)
  \/ SoapReply(1, WideReplies)
  \/ ForwardReply(1, WideForwardOutcomes)

SpecSingle == Init /\ [][NextSingle]_vars

\* the lookups the authority may leave unanswered for ever: callSoapApi's
\* post carries no timeout
Unanswered == {1}

\* the post to the sink settles within its 5000 ms timeout, and the
\* authority answers every lookup but those of Unanswered
SpecFair ==
  /\ Init
  /\ [][Next]_vars
  /\ \A t \in Txns : WF_vars(ForwardReply(t, ForwardOutcomes))
  /\ \A t \in Txns \ Unanswered : WF_vars(SoapReply(t, NarrowReplies))

(***************************************************************************)
(* The log helpers on their own: writeLog applied to a category, and the   *)
(* fetch routes, which answer with readLog of a category.                  *)
(***************************************************************************)
MaxAppends == 3

Note(s) == [note |-> Str(s)]
LogData == {Note(<<"a">>), Note(<<"b">>)}

AnyFileStates ==
  {AbsentFile, EmptyFile, CorruptFile, NotArrayFile, ArrayFile(<<OldEntry>>)}

FetchedLogs == {MatchedLog, MismatchLog, InvalidLog}
AppendedLogs == {MatchedLog, MismatchLog}

InitLog ==
  /\ \E f, g \in AnyFileStates :
       files = [n \in LogFiles |->
                  IF n = MatchedLog THEN f
                  ELSE IF n = MismatchLog THEN g ELSE AbsentFile]
  /\ Idle

Appends == Len(logged[MatchedLog]) + Len(logged[MismatchLog])

\* one call of writeLog(file, data)
LogAppend(file, data) ==
  /\ Appends < MaxAppends
  /\ files' = writeLog(files, file, data)
  /\ logged' = IF writeLogThrows(files, file) THEN logged
               ELSE [logged EXCEPT ![file] = Append(@, data)]
  /\ logCall' = [op |-> "writeLog", file |-> file, before |-> files[file],
                 data |-> data, threw |-> writeLogThrows(files, file)]
  /\ UNCHANGED <<variant, pc, client, reply, soapData, mismatches, payload,
                 effects, delivery, started>>

\* data.length of what readLog returned
Count(n) == [t |-> "number", n |-> n]
LengthOf(data) == IF data.t = "array" THEN Count(Len(data.s)) ELSE Undef

\* GET /api/gate/matched, /mismatch, /invalid
Fetch(file) ==
  /\ logCall' = [op |-> "fetch", file |-> file, before |-> files[file],
                 body |-> [success |-> TRUE,
                           count |-> LengthOf(readLog(files, file)),
                           data |-> readLog(files, file)]]
  /\ UNCHANGED <<variant, files, pc, client, reply, soapData, mismatches,
                 payload, effects, delivery, started, logged>>

NextLog ==
  \/ \E file \in AppendedLogs, data \in LogData : LogAppend(file, data)
  \/ \E file \in FetchedLogs : Fetch(file)

SpecLog == InitLog /\ [][NextLog]_vars

(***************************************************************************)
(* What a transaction has done so far, read off its side effects.          *)
(***************************************************************************)
IsLog(e, file) == e.op = "writeLog" /\ e.name = file
IsEmit(e, event) == e.op = "emit" /\ e.name = event

LogsTo(t, file) == SelectSeq(effects[t], LAMBDA e : IsLog(e, file))
Emits(t) == SelectSeq(effects[t], LAMBDA e : e.op = "emit")
Responses(t) == SelectSeq(effects[t], LAMBDA e : e.op = "respond")
SoapCalls(t) == SelectSeq(effects[t], LAMBDA e : e.op = "callSoapApi")
Forwards(t) == SelectSeq(effects[t], LAMBDA e : e.op = "axios.post")

OutcomeLogs(t) ==
  SelectSeq(effects[t],
            LAMBDA e : e.op = "writeLog"
                       /\ e.name \in {MatchedLog, MismatchLog, InvalidLog})

\* the file holds the entry writeLog makes of data
Holds(file, data) ==
  \E i \in 1..Len(readLog(files, file).s) :
    readLog(files, file).s[i] = LogEntry(data)

\* the transaction answered with this status
Answered(t, status) ==
  /\ pc[t] = "done"
  /\ Len(Responses(t)) = 1
  /\ Responses(t)[1].status = status

\* the authority lookup of t returned a record
LookedUp(t) == reply[t].kind = "record"

\* the validity indicator of the authority record of t
ValidityOf(t) == Get(soapData[t], "isPermitValidTill")

\* the indicator is absent (or empty), or resolves to a time before now
AbsentOrPast(x) ==
  \/ x = Undef
  \/ x = Str(<<>>)
  \/ NewDate(x).valid /\ NewDate(x).time < Now.time

\* t was classified Expired: one invalid entry and event carrying the
\* authority record, nothing of another outcome, and a 422 with the record
ClassifiedExpired(t) ==
  /\ Answered(t, 422)
  /\ Responses(t)[1].data.soapData = soapData[t]
  /\ Len(OutcomeLogs(t)) = 1
  /\ OutcomeLogs(t)[1].name = InvalidLog
  /\ OutcomeLogs(t)[1].data.soapData = soapData[t]
  /\ OutcomeLogs(t)[1].data.client = client[t]
  /\ Holds(InvalidLog, OutcomeLogs(t)[1].data)
  /\ Len(Emits(t)) = 1
  /\ Emits(t)[1].name = "gate:invalid"
  /\ Emits(t)[1].data = OutcomeLogs(t)[1].data
  /\ Forwards(t) = <<>>
  /\ LogsTo(t, ErrorLog) = <<>>

(***************************************************************************)
(* C1.  A transaction whose authority lookup returned a record with an     *)
(* absent or past validity indicator is always Expired, whatever the       *)
(* submitted and authoritative fields: the mismatch list is never          *)
(* evaluated, the entry goes to the invalid category, and the authority    *)
(* record is in the audited payload and in the response.                   *)
(***************************************************************************)
C1_ExpiredUnconditional ==
  \A t \in Txns :
    (LookedUp(t) /\ AbsentOrPast(ValidityOf(t)))
      => /\ ~mismatches[t].evaluated
         /\ ClassifiedExpired(t)

\* an expired permit whose fields all match what was submitted
C1_Witness ==
  \E t \in Txns :
    /\ variant = 2
    /\ LookedUp(t)
    /\ ValidityOf(t) = Y2025
    /\ client[t].permitNumber = soapData[t].permitNumber
    /\ client[t].vehicleNumber = V1 /\ soapData[t].vehicleNumber = V1
    /\ client[t].containerNumber = C1 /\ soapData[t].containerNumber = C1
    /\ Answered(t, 422)

\* t was classified Matched so far: one matched entry whose payload went to
\* the forward, nothing of another outcome; once answered, one matched event
\* with that payload and a plain success
ClassifiedMatched(t, source) ==
  /\ pc[t] \in {"awaitForward", "awaitForwardManual", "done"}
  /\ Len(OutcomeLogs(t)) = 1
  /\ OutcomeLogs(t)[1].name = MatchedLog
  /\ OutcomeLogs(t)[1].data.source = source
  /\ OutcomeLogs(t)[1].data.client = client[t]
  /\ Holds(MatchedLog, OutcomeLogs(t)[1].data)
  /\ LogsTo(t, ErrorLog) = <<>>
  /\ pc[t] = "done"
       => /\ Answered(t, 200)
          /\ Len(Emits(t)) = 1
          /\ Emits(t)[1].name = "gate:matched"
          /\ Emits(t)[1].data = OutcomeLogs(t)[1].data

\* t was classified Mismatched with this list
ClassifiedMismatched(t, list) ==
  /\ Answered(t, 409)
  /\ Responses(t)[1].data.mismatches = list
  /\ Responses(t)[1].data.soapData = soapData[t]
  /\ Len(OutcomeLogs(t)) = 1
  /\ OutcomeLogs(t)[1].name = MismatchLog
  /\ OutcomeLogs(t)[1].data.mismatches = list
  /\ OutcomeLogs(t)[1].data.client = client[t]
  /\ Holds(MismatchLog, OutcomeLogs(t)[1].data)
  /\ Len(Emits(t)) = 1
  /\ Emits(t)[1].name = "gate:mismatch"
  /\ Emits(t)[1].data = OutcomeLogs(t)[1].data
  /\ Forwards(t) = <<>>
  /\ LogsTo(t, ErrorLog) = <<>>

(***************************************************************************)
(* C2.  In variant 1 a request whose confirmedByUser is the boolean true   *)
(* is always Matched with source manual, and callSoapApi is never invoked  *)
(* for that transaction, whatever the other request fields are.            *)
(***************************************************************************)
C2_ManualOverride ==
  \A t \in Txns :
    (variant = 1 /\ pc[t] # "idle" /\ client[t].confirmedByUser = True)
      => /\ SoapCalls(t) = <<>>
         /\ reply[t] = NoReply
         /\ ClassifiedMatched(t, "manual")
         /\ OutcomeLogs(t)[1].data.soapData = Null

\* a manual confirmation of a request that names no permit at all, answered
C2_Witness ==
  \E t \in Txns :
    /\ variant = 1
    /\ client[t] # NoClient
    /\ client[t].confirmedByUser = True
    /\ client[t].permitNumber = Undef
    /\ Answered(t, 200)

(***************************************************************************)
(* C3.  A transaction that reaches field reconciliation is Matched with    *)
(* source authority ("soap") exactly when its mismatch list is empty, and  *)
(* Mismatched with that list otherwise.                                    *)
(***************************************************************************)
C3_MatchedIffNoMismatch ==
  \A t \in Txns :
    mismatches[t].evaluated
      => IF mismatches[t].list = <<>>
         THEN ClassifiedMatched(t, "soap")
         ELSE ClassifiedMismatched(t, mismatches[t].list)

\* both outcomes of reconciliation are reached: here a list of two details
C3_Witness ==
  \E t \in Txns :
    /\ mismatches[t].evaluated
    /\ Len(mismatches[t].list) = 2
    /\ Answered(t, 409)

\* ... and here the empty list
C3_WitnessMatched ==
  \E t \in Txns :
    /\ mismatches[t].evaluated
    /\ mismatches[t].list = <<>>
    /\ Answered(t, 200)

\* the details of the mismatch list of t that name this field
DetailsOf(t, field) ==
  SelectSeq(mismatches[t].list, LAMBDA d : d.field = field)

\* t has a matched entry
HasMatchedEntry(t) == LogsTo(t, MatchedLog) # <<>>

(***************************************************************************)
(* C4.  Field reconciliation always compares the permit number: when the   *)
(* submitted permit number differs from the authority record's and the     *)
(* permit is not expired, the mismatch list has a permitNumber detail and  *)
(* the transaction is not Matched.  (Variant 2 never compares it.)         *)
(***************************************************************************)
C4_PermitAlwaysCompared ==
  \A t \in Txns :
    (mismatches[t].evaluated
     /\ client[t].permitNumber # soapData[t].permitNumber)
      => /\ DetailsOf(t, "permitNumber") # <<>>
         /\ ~HasMatchedEntry(t)

(***************************************************************************)
(* C5.  Vehicle-number rule of field reconciliation: a request without a   *)
(* vehicleNumber (absent or empty) is Mismatched with a detail reporting   *)
(* the absence, whatever the authority reports for the vehicle; a request  *)
(* with a vehicleNumber gets a vehicleNumber detail exactly when the       *)
(* authority reports a vehicle number too and the two differ.              *)
(***************************************************************************)
C5_VehicleRule ==
  \A t \in Txns :
    mismatches[t].evaluated
      => LET c == client[t].vehicleNumber
             a == soapData[t].vehicleNumber
             d == DetailsOf(t, "vehicleNumber")
         IN IF ~Truthy(c)
            THEN /\ Len(d) = 1
                 /\ "reason" \in DOMAIN d[1]
                 /\ ClassifiedMismatched(t, mismatches[t].list)
            ELSE /\ (d # <<>>) <=> (Truthy(a) /\ c # a)
                 /\ d # <<>> => (Len(d) = 1 /\ d[1].client = c /\ d[1].soap = a)

\* no vehicleNumber submitted, the authority reports one: Mismatched
C5_Witness ==
  \E t \in Txns :
    /\ mismatches[t].evaluated
    /\ client[t].vehicleNumber = Undef
    /\ soapData[t].vehicleNumber = V1
    /\ Answered(t, 409)

\* a vehicleNumber submitted, the authority reports none: no detail, Matched
C5_WitnessUnreported ==
  \E t \in Txns :
    /\ mismatches[t].evaluated
    /\ client[t].vehicleNumber = V1
    /\ soapData[t].vehicleNumber = Undef
    /\ Answered(t, 200)

\* both report one and they differ
C5_WitnessDiffer ==
  \E t \in Txns :
    /\ mismatches[t].evaluated
    /\ client[t].vehicleNumber = V1
    /\ soapData[t].vehicleNumber = V2
    /\ Answered(t, 409)

\* the container policy as the claim words it: GATE_IN with prefix PMA, or
\* GATE_OUT with prefix PMD or GPC (the direction in any letter case)
PolicyRequiresContainer(c) ==
  LET direction == ToUpperCase(OrEmpty(c.gateType).s)
      prefix == Substring0(OrEmpty(c.permitNumber).s, 3)
  IN \/ direction = GATE_IN.s /\ prefix = <<"P", "M", "A">>
     \/ direction = GATE_OUT.s /\ prefix = <<"P", "M", "D">>
     \/ direction = GATE_OUT.s /\ prefix = <<"G", "P", "C">>

(***************************************************************************)
(* C6.  Container-number rule of field reconciliation: a containerNumber   *)
(* detail is reported exactly when the policy requires the check for this  *)
(* direction and permit prefix, both sides carry a container number, and   *)
(* the two differ.                                                         *)
(***************************************************************************)
C6_ContainerRule ==
  \A t \in Txns :
    mismatches[t].evaluated
      => LET c == client[t].containerNumber
             a == soapData[t].containerNumber
             d == DetailsOf(t, "containerNumber")
         IN /\ (d # <<>>)
                 <=> (PolicyRequiresContainer(client[t])
                      /\ Truthy(c) /\ Truthy(a) /\ c # a)
            /\ d # <<>> => (Len(d) = 1 /\ d[1].client = c /\ d[1].soap = a)

\* the policy does not require the check and the values differ: Matched
C6_Witness ==
  \E t \in Txns :
    /\ mismatches[t].evaluated
    /\ ~PolicyRequiresContainer(client[t])
    /\ client[t].containerNumber = C1
    /\ soapData[t].containerNumber = C2
    /\ Answered(t, 200)

\* the policy requires it (gate_out, GPC) and the values differ: Mismatched
C6_WitnessRequired ==
  \E t \in Txns :
    /\ mismatches[t].evaluated
    /\ client[t].gateType = gate_out
    /\ client[t].permitNumber = GPC1
    /\ client[t].containerNumber = C1
    /\ soapData[t].containerNumber = C2
    /\ DetailsOf(t, "containerNumber") # <<>>
    /\ Answered(t, 409)

\* the policy requires it and the authority reports no container: no detail
C6_WitnessAbsent ==
  \E t \in Txns :
    /\ mismatches[t].evaluated
    /\ PolicyRequiresContainer(client[t])
    /\ client[t].containerNumber = C1
    /\ soapData[t].containerNumber = Undef
    /\ Answered(t, 200)

\* t ended in the handler's catch
InternalError(t) == LogsTo(t, ErrorLog) # <<>>

(***************************************************************************)
(* C7.  Every completed transaction has exactly one response, fixed by     *)
(* its outcome: success with the authority record for Matched (the manual  *)
(* path has no record to carry), 409 with the mismatch list and the record *)
(* for Mismatched, 422 with type PERMIT_EXPIRED and the record for         *)
(* Expired, 500 with an error for an internal failure.  (Variant 1         *)
(* answers an expired permit with type INVALID_PERMIT.)                    *)
(***************************************************************************)
C7_ResponseByOutcome ==
  \A t \in Txns :
    pc[t] = "done"
      => /\ Len(Responses(t)) = 1
         /\ LET r == Responses(t)[1]
            IN /\ LogsTo(t, MatchedLog) # <<>>
                    => /\ r.status = 200
                       /\ r.data.success = TRUE
                       /\ LogsTo(t, MatchedLog)[1].data.source = "soap"
                            => r.data.soapData = soapData[t]
               /\ LogsTo(t, MismatchLog) # <<>>
                    => /\ r.status = 409
                       /\ r.data.mismatches = mismatches[t].list
                       /\ r.data.soapData = soapData[t]
               /\ LogsTo(t, InvalidLog) # <<>>
                    => /\ r.status = 422
                       /\ r.data.type = "PERMIT_EXPIRED"
                       /\ r.data.soapData = soapData[t]
               /\ InternalError(t)
                    => /\ r.status = 500
                       /\ "error" \in DOMAIN r.data

(***************************************************************************)
(* C8.  The raw inbound request is appended to incoming before anything    *)
(* else the transaction does: the incoming write is the first side effect  *)
(* of every transaction that has started, before the matched entry of a    *)
(* manual confirmation, before the authority lookup, before any outcome    *)
(* entry, event or response, also when the transaction ends in the catch;  *)
(* and the incoming file holds the entry from then on.                     *)
(***************************************************************************)
C8_IncomingFirst ==
  \A t \in Txns :
    pc[t] # "idle"
      => /\ effects[t] # <<>>
         /\ IsLog(effects[t][1], IncomingLog)
         /\ effects[t][1].data \in {client[t], [body |-> client[t]]}
         /\ Len(LogsTo(t, IncomingLog)) = 1
         /\ Holds(IncomingLog, effects[t][1].data)

\* one transaction ended in an internal error while another is in flight
C8_Witness ==
  \E t, u \in Txns :
    /\ t # u
    /\ Answered(t, 500)
    /\ InternalError(t)
    /\ pc[u] \in {"awaitSoap", "awaitForward", "awaitForwardManual"}
    /\ IsLog(effects[t][1], IncomingLog)
    /\ IsLog(effects[u][1], IncomingLog)
    /\ Len(readLog(files, IncomingLog).s) >= 2

\* the audit category, the event and the response status of each Decision
DecisionTriples ==
  {<<MatchedLog, "gate:matched", 200>>,
   <<MismatchLog, "gate:mismatch", 409>>,
   <<InvalidLog, "gate:invalid", 422>>}

(***************************************************************************)
(* C9.  A transaction that reached a terminal Decision (it answered, and   *)
(* not from the catch) appended exactly one outcome entry, to the category *)
(* of its Decision and to no other, and published exactly one event, of    *)
(* the same name and with the same payload; category, event and response   *)
(* status agree.                                                           *)
(***************************************************************************)
C9_OneOutcomeOneEvent ==
  \A t \in Txns :
    (pc[t] = "done" /\ ~InternalError(t))
      => /\ Len(OutcomeLogs(t)) = 1
         /\ Len(Emits(t)) = 1
         /\ Len(Responses(t)) = 1
         /\ Emits(t)[1].data = OutcomeLogs(t)[1].data
         /\ <<OutcomeLogs(t)[1].name, Emits(t)[1].name, Responses(t)[1].status>>
              \in DecisionTriples
         /\ Holds(OutcomeLogs(t)[1].name, OutcomeLogs(t)[1].data)

\* two transactions with different Decisions, both answered
C9_Witness ==
  \E t, u \in Txns :
    /\ Answered(t, 422)
    /\ Answered(u, 200)
    /\ LogsTo(t, InvalidLog) # <<>>
    /\ LogsTo(u, MatchedLog) # <<>>

\* a mismatch Decision, answered
C9_WitnessMismatch ==
  \E t \in Txns : Answered(t, 409) /\ LogsTo(t, MismatchLog) # <<>>

(***************************************************************************)
(* C10.  A failed authority lookup (the post fails, or the answer has no   *)
(* PermitDTLS block) ends the transaction as an internal error: a 500,     *)
(* one entry in the error category, no matched, mismatch or invalid entry, *)
(* no event, no forward; and no transaction calls the authority twice.     *)
(***************************************************************************)
C10_LookupFailureIsInternalError ==
  \A t \in Txns :
    /\ Len(SoapCalls(t)) <= 1
    /\ reply[t].kind \in {"transportError", "noPermitDTLS"}
         => /\ Answered(t, 500)
            /\ Len(LogsTo(t, ErrorLog)) = 1
            /\ Holds(ErrorLog, LogsTo(t, ErrorLog)[1].data)
            /\ OutcomeLogs(t) = <<>>
            /\ Emits(t) = <<>>
            /\ Forwards(t) = <<>>
            /\ LogsTo(t, SentLog) = <<>>
            /\ LogsTo(t, SentErrorLog) = <<>>
            /\ Len(SoapCalls(t)) = 1

\* both kinds of failure, each answered with a 500
C10_Witness ==
  \E t, u \in Txns :
    /\ reply[t].kind = "transportError"
    /\ reply[u].kind = "noPermitDTLS"
    /\ Answered(t, 500)
    /\ Answered(u, 500)
    /\ Len(readLog(files, ErrorLog).s) >= 2

\* the transactions that have a matched entry, and those whose post failed
MatchedTxns == {t \in Txns : LogsTo(t, MatchedLog) # <<>>}
FailedDeliveries == {t \in Txns : delivery[t] \notin {NotForwarded, "delivered"}}

(***************************************************************************)
(* C11.  sendToTargetAPI is invoked only for Matched decisions, and once   *)
(* for each: a transaction with a matched entry has posted to the sink     *)
(* exactly once and has one entry in the forwarded category; a transaction *)
(* without one (Mismatched, Expired, internal error, or still waiting for  *)
(* the authority) has made no post and has no entry in the forwarded or    *)
(* the forward-error category; and the two files hold no entry that no     *)
(* Matched transaction wrote.                                              *)
(***************************************************************************)
C11_ForwardOnlyForMatched ==
  /\ \A t \in Txns :
       IF t \in MatchedTxns
       THEN /\ Len(LogsTo(t, MatchedLog)) = 1
            /\ Len(Forwards(t)) = 1
            /\ Forwards(t)[1].data = LogsTo(t, MatchedLog)[1].data
            /\ Len(LogsTo(t, SentLog)) = 1
            /\ LogsTo(t, SentLog)[1].data = LogsTo(t, MatchedLog)[1].data
            /\ Len(LogsTo(t, SentErrorLog)) <= 1
       ELSE /\ Forwards(t) = <<>>
            /\ LogsTo(t, SentLog) = <<>>
            /\ LogsTo(t, SentErrorLog) = <<>>
            /\ delivery[t] = NotForwarded
  /\ Len(logged[SentLog]) = Cardinality(MatchedTxns)
  /\ Len(logged[SentErrorLog]) = Cardinality(FailedDeliveries)
  /\ FailedDeliveries \subseteq MatchedTxns

\* a Mismatched transaction that forwarded nothing beside a Matched one
\* that forwarded once
C11_Witness ==
  \E t, u \in Txns :
    /\ Answered(t, 409)
    /\ Forwards(t) = <<>>
    /\ Answered(u, 200)
    /\ Len(Forwards(u)) = 1
    /\ Len(readLog(files, SentLog).s) >= 1

\* an Expired transaction and an internal error, neither forwarded
C11_WitnessOther ==
  \E t, u \in Txns :
    /\ Answered(t, 422)
    /\ Answered(u, 500)
    /\ Forwards(t) = <<>>
    /\ Forwards(u) = <<>>

(***************************************************************************)
(* C12.  A failed delivery never fails the transaction: whenever the post  *)
(* to the sink has failed (timeout, refused connection, non-2xx answer),   *)
(* the transaction has exactly one forward-error entry holding the failure *)
(* and the payload of its matched entry, it has published gate:matched     *)
(* with that payload, it has answered 200 with success, and it has no      *)
(* entry in the error category; a delivered post leaves no forward-error   *)
(* entry.                                                                  *)
(***************************************************************************)
C12_ForwardFailureSwallowed ==
  \A t \in Txns :
    /\ delivery[t] = "delivered" => LogsTo(t, SentErrorLog) = <<>>
    /\ t \in FailedDeliveries
         => /\ Len(LogsTo(t, SentErrorLog)) = 1
            /\ LogsTo(t, SentErrorLog)[1].data
                 = [error |-> delivery[t], payload |-> payload[t]]
            /\ Holds(SentErrorLog, LogsTo(t, SentErrorLog)[1].data)
            /\ payload[t] = LogsTo(t, MatchedLog)[1].data
            /\ Answered(t, 200)
            /\ Responses(t)[1].data.success
            /\ Len(Emits(t)) = 1
            /\ Emits(t)[1].name = "gate:matched"
            /\ Emits(t)[1].data = payload[t]
            /\ LogsTo(t, ErrorLog) = <<>>

\* an authority-matched transaction whose post to the sink timed out
C12_Witness ==
  \E t \in Txns :
    /\ delivery[t] = "timeout of 5000ms exceeded"
    /\ payload[t].source = "soap"
    /\ pc[t] = "done"
    /\ Len(readLog(files, SentErrorLog).s) >= 1

\* a manually confirmed transaction whose post was answered with a 500
C12_WitnessManual ==
  \E t \in Txns :
    /\ delivery[t] = "Request failed with status code 500"
    /\ payload[t].source = "manual"
    /\ pc[t] = "done"

\* the entries writeLog makes of a sequence of data, in order
RECURSIVE Entries(_)
Entries(datas) ==
  IF datas = <<>> THEN <<>>
  ELSE <<LogEntry(Head(datas))>> \o Entries(Tail(datas))

(***************************************************************************)
(* C13.  After N completed writeLog calls on a category whose file was     *)
(* absent or empty at the start, readLog of the category, and the fetch    *)
(* route's answer, is exactly the N entries in call order; and a           *)
(* category's file depends on its own appends only: with none it is as it  *)
(* was at the start, whatever was appended to the other categories.        *)
(***************************************************************************)
C13_AppendsInOrder ==
  /\ \A file \in LogFiles :
       /\ started[file].state \in {"absent", "empty"}
            => /\ readLog(files, file) = Array(Entries(logged[file]))
               /\ Len(readLog(files, file).s) = Len(logged[file])
       /\ logged[file] = <<>> => files[file] = started[file]
  /\ (logCall.op = "fetch" /\ started[logCall.file].state \in {"absent", "empty"})
       => /\ logCall.body.data = Array(Entries(logged[logCall.file]))
          /\ logCall.body.count = Count(Len(logged[logCall.file]))

\* two different entries appended to matched, one to mismatch in between,
\* and matched fetched
C13_Witness ==
  /\ started[MatchedLog].state = "empty"
  /\ started[MismatchLog].state = "absent"
  /\ logged[MatchedLog] = <<Note(<<"a">>), Note(<<"b">>)>>
  /\ Len(logged[MismatchLog]) = 1
  /\ logCall.op = "fetch"
  /\ logCall.file = MatchedLog
  /\ logCall.body.count = Count(2)

\* the stored history is absent or is not a history: unparsable text, or
\* valid JSON that is no array
Damaged(f) == f.state \in {"absent", "corrupt", "notarray"}

(***************************************************************************)
(* C14.  A corrupt or absent history is treated as an empty one: a fetch   *)
(* of a damaged category answers with what readLog returns, the empty      *)
(* sequence; and writeLog on a damaged category does not throw and leaves  *)
(* a history of exactly the one new entry.                                 *)
(***************************************************************************)
C14_DamagedHistoryIsEmpty ==
  /\ (logCall.op = "fetch" /\ Damaged(logCall.before))
       => /\ logCall.body.data = Array(<<>>)
          /\ logCall.body.count = Count(0)
  /\ (logCall.op = "writeLog" /\ Damaged(logCall.before))
       => /\ ~logCall.threw
          /\ readLog(files, logCall.file) = Array(<<LogEntry(logCall.data)>>)

\* what does hold: the same with the damage limited to absence and to text
\* JSON.parse rejects
C14_UnparsableOrAbsentIsEmpty ==
  /\ (logCall.op = "fetch" /\ logCall.before.state \in {"absent", "corrupt"})
       => /\ logCall.body.data = Array(<<>>)
          /\ logCall.body.count = Count(0)
  /\ (logCall.op = "writeLog" /\ logCall.before.state \in {"absent", "corrupt"})
       => /\ ~logCall.threw
          /\ readLog(files, logCall.file) = Array(<<LogEntry(logCall.data)>>)

\* writeLog has thrown on a file holding valid JSON that is no array
C14_WitnessThrown ==
  /\ logCall.op = "writeLog"
  /\ logCall.before = NotArrayFile
  /\ logCall.threw
  /\ files[logCall.file] = NotArrayFile

\* where in the effects of t the effects of one sort stand
Positions(t, Sort(_)) == {i \in 1..Len(effects[t]) : Sort(effects[t][i])}
AllBefore(A, B) == \A i \in A, j \in B : i < j

IsSoapCall(e) == e.op = "callSoapApi"
IsOutcomeLog(e) ==
  e.op = "writeLog" /\ e.name \in {MatchedLog, MismatchLog, InvalidLog}
IsMatchedLog(e) == IsLog(e, MatchedLog)
IsEvent(e) == e.op = "emit"
IsMatchedEvent(e) == IsEmit(e, "gate:matched")
IsPost(e) == e.op = "axios.post"
IsForwardLog(e) == IsLog(e, SentLog) \/ IsLog(e, SentErrorLog)
IsResponse(e) == e.op = "respond"

(***************************************************************************)
(* C15 as stated.  Within one transaction: the authority call, then the    *)
(* outcome audit entry, then the event, then the forward; the post to the  *)
(* sink is made only after the matched audit entry and the matched event.  *)
(***************************************************************************)
C15_ForwardAfterEvent ==
  \A t \in Txns :
    /\ AllBefore(Positions(t, IsSoapCall), Positions(t, IsOutcomeLog))
    /\ AllBefore(Positions(t, IsOutcomeLog), Positions(t, IsEvent))
    /\ AllBefore(Positions(t, IsEvent), Positions(t, IsPost))
    /\ \A i \in Positions(t, IsPost) :
         /\ \E j \in Positions(t, IsMatchedLog) : j < i
         /\ \E j \in Positions(t, IsMatchedEvent) : j < i

(***************************************************************************)
(* C15 amended.  Within one transaction: the authority call, then the      *)
(* outcome audit entry, then (only for Matched) the forward with its       *)
(* forwarded and forward-error entries, then the event, then the           *)
(* response; the post to the sink is made after the matched audit entry    *)
(* and before the matched event, which is published only once the post     *)
(* has settled.                                                            *)
(***************************************************************************)
C15_AuditForwardEvent ==
  \A t \in Txns :
    /\ AllBefore(Positions(t, IsSoapCall), Positions(t, IsOutcomeLog))
    /\ AllBefore(Positions(t, IsOutcomeLog), Positions(t, IsForwardLog))
    /\ AllBefore(Positions(t, IsOutcomeLog), Positions(t, IsPost))
    /\ AllBefore(Positions(t, IsOutcomeLog), Positions(t, IsEvent))
    /\ AllBefore(Positions(t, IsPost), Positions(t, IsEvent))
    /\ AllBefore(Positions(t, IsForwardLog), Positions(t, IsEvent))
    /\ AllBefore(Positions(t, IsEvent), Positions(t, IsResponse))
    /\ \A i \in Positions(t, IsPost) :
         \E j \in Positions(t, IsMatchedLog) : j < i
    /\ \A i \in Positions(t, IsMatchedEvent) :
         /\ \E j \in Positions(t, IsPost) : j < i
         /\ delivery[t] # NotForwarded
    /\ Positions(t, IsEvent) # {} => Positions(t, IsOutcomeLog) # {}

\* an authority-matched transaction that has done all of it: the call, the
\* matched entry, the failed forward, the event and the response
C15_Witness ==
  \E t \in Txns :
    /\ Answered(t, 200)
    /\ Len(SoapCalls(t)) = 1
    /\ Len(LogsTo(t, MatchedLog)) = 1
    /\ Len(Forwards(t)) = 1
    /\ Len(LogsTo(t, SentErrorLog)) = 1
    /\ Len(Emits(t)) = 1

\* t has been received and has not been answered yet
InFlight(t) == pc[t] \in {"awaitSoap", "awaitForward", "awaitForwardManual"}

\* the entries a category's file has gained since the start
Gained(file) ==
  Len(readLog(files, file).s) - Len(LoadedArray(started[file]))

\* two transactions in flight at the same time that have both appended to
\* matched
ConcurrentMatchedAppends ==
  \E t, u \in Txns :
    /\ t # u
    /\ InFlight(t) /\ InFlight(u)
    /\ t \in MatchedTxns /\ u \in MatchedTxns

(***************************************************************************)
(* C16 as stated.  Two transactions processed concurrently that both       *)
(* append to matched lose an update: the matched history ends up with      *)
(* fewer entries than the number of appends that completed.                *)
(***************************************************************************)
C16_ConcurrentAppendsLoseUpdate ==
  ConcurrentMatchedAppends => Gained(MatchedLog) < Len(logged[MatchedLog])

(***************************************************************************)
(* C16 amended.  No interleaving of concurrently processed transactions    *)
(* loses an update: every category's history is what it was at the start   *)
(* followed by one entry for each completed append, in completion order,   *)
(* and every transaction's appends are among them.                         *)
(***************************************************************************)
C16_NoLostUpdate ==
  /\ \A file \in LogFiles :
       /\ readLog(files, file).s
            = LoadedArray(started[file]) \o Entries(logged[file])
       /\ Gained(file) = Len(logged[file])
       /\ \A t \in Txns :
            \A i \in 1..Len(LogsTo(t, file)) :
              Holds(file, LogsTo(t, file)[i].data)
  /\ Len(logged[MatchedLog]) = Cardinality(MatchedTxns)

\* two transactions in flight at the same time, both with their matched
\* entry written, and both entries in the file
C16_Witness ==
  /\ ConcurrentMatchedAppends
  /\ Len(logged[MatchedLog]) = 2
  /\ Gained(MatchedLog) = 2

\* the same with the two authority lookups overlapping: both requests were
\* received before either answer arrived
C16_WitnessOverlap ==
  \E t, u \in Txns :
    /\ t # u
    /\ pc[t] = "awaitForward" /\ pc[u] = "awaitForward"
    /\ Gained(MatchedLog) = 2

\* t has produced no outcome entry, no event, no response, no error entry
Quiet(t) ==
  /\ OutcomeLogs(t) = <<>>
  /\ Emits(t) = <<>>
  /\ Responses(t) = <<>>
  /\ LogsTo(t, ErrorLog) = <<>>

\* t has ended with exactly one response
Responded(t) == pc[t] = "done" /\ Len(Responses(t)) = 1

(***************************************************************************)
(* C17.  A transaction waiting for the authority has produced no outcome   *)
(* entry, event or response, and leaves the wait only when the authority's *)
(* answer arrives: nothing times the lookup out, so an unanswered lookup   *)
(* stalls its transaction for ever.  Whatever the other transactions do,   *)
(* every transaction whose lookup is answered eventually ends with exactly *)
(* one response, and every transaction that has handed its payload to the  *)
(* sink eventually responds, because the post settles within its timeout.  *)
(***************************************************************************)
C17_IndependentProgress ==
  /\ [](\A t \in Txns : /\ pc[t] = "awaitSoap" => Quiet(t)
                        /\ Len(Responses(t)) <= 1)
  /\ [][\A t \in Txns :
          (pc[t] = "awaitSoap" /\ pc'[t] # "awaitSoap")
            => (reply[t] = NoReply /\ reply'[t] # NoReply)]_vars
  /\ \A t \in Txns \ Unanswered : (pc[t] = "awaitSoap") ~> Responded(t)
  /\ \A t \in Txns :
       (pc[t] \in {"awaitForward", "awaitForwardManual"}) ~> Responded(t)

\* transaction 1 still waits for the authority, with nothing produced,
\* while a transaction received after it has been answered by the
\* authority and has responded
C17_Witness ==
  \E t \in Txns \ Unanswered :
    /\ pc[1] = "awaitSoap"
    /\ Quiet(1)
    /\ Len(readLog(files, IncomingLog).s) - Len(LoadedArray(started[IncomingLog])) = 2
    /\ LookedUp(t)
    /\ Responded(t)

\* read alone, this says the unanswered lookup is answered after all; it
\* fails under SpecFair, which is the stall
C17_UnansweredAlsoProgresses ==
  \A t \in Unanswered : (pc[t] = "awaitSoap") ~> Responded(t)

\* how t was classified: its outcome entries, events, error entries,
\* mismatch list and response
Classification(t) ==
  [outcome |-> OutcomeLogs(t),
   events |-> Emits(t),
   errors |-> LogsTo(t, ErrorLog),
   mismatches |-> mismatches[t],
   soapData |-> soapData[t],
   response |-> Responses(t)]

C18_WitnessMismatch ==
  \E t, u \in Txns :
    /\ t # u
    /\ client[t] = client[u]
    /\ LookedUp(t)
    /\ reply[t] = reply[u]
    /\ Answered(t, 409) /\ Answered(u, 409)

(***************************************************************************)
(* C19.  In variant 1 the authority record never carries a validity        *)
(* indicator, so every transaction that is not manually confirmed and      *)
(* whose lookup returned a record is Expired (422, invalid category),      *)
(* whatever the authority said about validity and whatever the fields:     *)
(* the mismatch list is never evaluated, nothing is written to the         *)
(* mismatch category, no transaction is answered 409, and a matched entry  *)
(* comes from the manual path only, with no authority call.                *)
(***************************************************************************)
C19_Variant1AlwaysExpired ==
  variant = 1 =>
    \A t \in Txns :
      /\ LookedUp(t)
           => /\ ~ManualConfirm(variant, client[t])
              /\ "isPermitValidTill" \notin DOMAIN soapData[t]
              /\ ClassifiedExpired(t)
      /\ ~mismatches[t].evaluated
      /\ LogsTo(t, MismatchLog) = <<>>
      /\ ~Answered(t, 409)
      /\ HasMatchedEntry(t)
           => /\ ManualConfirm(variant, client[t])
              /\ LogsTo(t, MatchedLog)[1].data.source = "manual"
              /\ SoapCalls(t) = <<>>
              /\ reply[t] = NoReply
      /\ (pc[t] # "idle" /\ ~ManualConfirm(variant, client[t]))
           => /\ Len(SoapCalls(t)) = 1
              /\ ~HasMatchedEntry(t)

\* variant 1 answers 422 although the authority reports the permit valid
\* into the future and every submitted field agrees with the record
C19_Witness ==
  \E t \in Txns :
    /\ variant = 1
    /\ reply[t].kind = "record"
    /\ reply[t].d["tns:IsPermitValid"] = Y2027
    /\ reply[t].d["tns:PermitNumber"] = client[t].permitNumber
    /\ reply[t].d["tns:VechileNumber"] = client[t].vehicleNumber
    /\ reply[t].d["tns:ContainerNumber"] = client[t].containerNumber
    /\ client[t].confirmedByUser = StrTrue
    /\ Answered(t, 422)

\* variant 1 reaches Matched through the manual path
C19_WitnessManual ==
  \E t \in Txns :
    /\ variant = 1
    /\ HasMatchedEntry(t)
    /\ Answered(t, 200)

\* the indicator is present and resolves to no timestamp
NoTimestamp(x) == Truthy(x) /\ ~NewDate(x).valid

(***************************************************************************)
(* C20.  isPermitExpired is true exactly when the validity indicator is    *)
(* absent or empty or resolves to a time strictly before the decision      *)
(* time, and the handler answers Expired in exactly those cases: an        *)
(* indicator equal to the decision time, a later one, and one that         *)
(* resolves to no timestamp (the flags "true" and "false") are not         *)
(* expired, and such a transaction goes on to field reconciliation, where  *)
(* it ends Matched or Mismatched, or in the catch if a field of the        *)
(* request is no string.                                                   *)
(***************************************************************************)
C20_ExpiredOnlyIfAbsentOrPast ==
  \A t \in Txns :
    LookedUp(t)
      => /\ isPermitExpired(ValidityOf(t)) <=> AbsentOrPast(ValidityOf(t))
         /\ ClassifiedExpired(t) <=> AbsentOrPast(ValidityOf(t))
         /\ LogsTo(t, InvalidLog) # <<>> <=> AbsentOrPast(ValidityOf(t))
         /\ NoTimestamp(ValidityOf(t))
              => /\ ~isPermitExpired(ValidityOf(t))
                 /\ ~Answered(t, 422)
                 /\ \/ mismatches[t].evaluated /\ HasMatchedEntry(t)
                    \/ mismatches[t].evaluated /\ Answered(t, 409)
                    \/ ~mismatches[t].evaluated /\ Answered(t, 500)

\* the authority's validity flag is "false" and the transaction is Matched
C20_Witness ==
  \E t \in Txns :
    /\ LookedUp(t)
    /\ ValidityOf(t) = StrFalse
    /\ mismatches[t].evaluated
    /\ Answered(t, 200)

\* the flag "true" and a Mismatched transaction; an indicator equal to the
\* decision time and a Matched one
C20_WitnessTrue ==
  \E t \in Txns :
    /\ ValidityOf(t) = StrTrue
    /\ Answered(t, 409)

C20_WitnessNow ==
  \E t \in Txns :
    /\ ValidityOf(t) = Y2026
    /\ Answered(t, 200)

====
